---- MODULE Spec2Model ----
(***************************************************************************)
(* Model of the job dispatcher of xiumingzhang/util:                       *)
(*   py/job-dispatcher/dispatch.py     (split_jobs, send_jobs, main)       *)
(*   py/job-dispatcher/exec_client.py  (wrapper, main)                     *)
(* The dispatcher and the execution client are separate programs; each has *)
(* its own specification over its own variables (Spec for the dispatcher,  *)
(* SpecClient for the execution client).                                   *)
(***************************************************************************)
EXTENDS Bags, FiniteSets, Integers, Naturals, Sequences, TLC

\* ------------------------------------------------------------------ bounds
MaxJobs == 3        \* longest job list handed to the dispatcher
MaxCpu == 2         \* longest cpu machine-number list of the configuration
MaxGpu == 1         \* longest gpu machine-number list of the configuration
MaxTasks == 3       \* longest job file read by the execution client
NCores == 2         \* os.cpu_count() of the client's machine: size of Pool()

\* ------------------------------------------------------- program constants
DefaultTh == 10     \* dispatch.py: th when --full_file and exe_thread < 0

JobText == {"a", "b"}          \* command strings a job list is made of
ExeThreadArgs == {-1, 0, 1, 2} \* values given to the dispatcher's -et
ThreadArgs == {-1, 0, 1}       \* values given to the client's -t
SegArgs == {0, 1, 2}           \* values given to the client's -s
CapArgs == {-1, 1, 2}          \* values given to the client's -c
ExitStatus == {0, 1}           \* exit statuses of a command: zero, non-zero

VARIABLES
    \* dispatcher (dispatch.py)
    d_pc,            \* position of main(): start, split, calling, done, crashed, aborted
    total_jobs,      \* the job list given to split_jobs
    total_expects,   \* the expectation list the user holds for the job list
    machine_list,    \* machine labels, cpu then gpu
    d_args,          \* parsed command line: full_file, exe_thread, try_only, no_python
    pool,            \* the pool directory: file name -> lines
    cmd,             \* send_jobs: the invocation list
    called,          \* invocations handed to subprocess.call, in order
    printed,         \* lines printed by send_jobs
    \* execution client (exec_client.py)
    c_pc,            \* position of main()
    c_args,          \* parsed command line: thread, seg, cap, dryrun, full_file
    job_lines,       \* the lines of the job file (one per command)
    satisfied,       \* job-file lines whose expected output files all exist
    tasks,           \* main: the task list after the cap
    p,               \* the worker pool: created?, size, closed?
    st,              \* per task: pending, running, finished, consumed
    outcome,         \* per task: what wrapper(task) produced
    outq,            \* results in completion order, not yet read by main
    log_file,        \* content of the client's log file
    count,           \* main: completed-task counter
    pbar,            \* number of pbar.update() calls
    listed,          \* lines printed by the dry run
    ran,             \* task indices handed to wrapper, in the order of the calls
    \* process reaper (kill_clients.py)
    r_pc,            \* position of main() or of kill_machine()
    r_in,            \* what was called: entry, where, machine_name
    r_env,           \* the network: local hostname, ping answer, remote ps lines
    pids,            \* kill_machine: the pids returned by get_pids
    pids_killed,     \* kill_machine: the pids whose kill succeeded
    r_trace,         \* remote operations issued so far: ping, list, kill
    msgs,            \* kill_machine: the messages recorded, in order
    logged,          \* main: the messages handed to the logger, in order
    \* existok-wrapped makedirs (xiuminglib/decorators.py)
    e_pc,            \* per worker: position inside the wrapped call
    e_errno,         \* per worker: errno of the OSError that reached the wrapper
    e_fs,            \* the file system at the path: its parent and the path itself
    e_denied,        \* whether mkdir is refused with a permission error
    \* engine partitions (external/aolib/old.iputil.py)
    a_pc,            \* position of the caller: start, mapping, returned, raised
    a_targets,       \* rc()[:].targets: the ids of the registered engines
    a_in,            \* the call: n, i, xs, nested?
    a_view,          \* the targets of the partition's view
    a_by,            \* per input element: the engine that ran it, -1 before
    a_res,           \* per input element: the result handed back
    \* OBJ loader (xiuminglib/GeometryModels.py)
    o_pc,            \* position of load_file: start, loop, update, done, raised
    o_lines,         \* the non-empty lines of the file
    o_i,             \* the index of the next line of the loop
    o_if,            \* load_file: i_f
    o_f,             \* load_file: f
    o_ft,            \* load_file: ft
    o_fn,            \* load_file: fn
    o_self           \* the object's f, ft, fn after the update

dvars == <<d_pc, total_jobs, total_expects, machine_list, d_args, pool, cmd,
           called, printed>>
cvars == <<c_pc, c_args, job_lines, satisfied, tasks, p, st, outcome, outq,
           log_file, count, pbar, listed, ran>>
rvars == <<r_pc, r_in, r_env, pids, pids_killed, r_trace, msgs, logged>>
evars == <<e_pc, e_errno, e_fs, e_denied>>
avars == <<a_pc, a_targets, a_in, a_view, a_by, a_res>>
ovars == <<o_pc, o_lines, o_i, o_if, o_f, o_ft, o_fn, o_self>>
vars == <<dvars, cvars, rvars, evars, avars, ovars>>

\* =================================================================== helpers
Range(s) == {s[i] : i \in 1..Len(s)}

SeqsUpTo(S, n) == UNION {[1..k -> S] : k \in 0..n}

RECURSIVE SeqToBag(_)
SeqToBag(s) ==
    IF s = <<>> THEN EmptyBag ELSE SeqToBag(Tail(s)) (+) SetToBag({Head(s)})

RECURSIVE Concat(_)
Concat(ss) == IF ss = <<>> THEN <<>> ELSE Head(ss) \o Concat(Tail(ss))

\* ---------------------------------------------------------------- file names
\* decimal digits of a natural number, most significant first
RECURSIVE Digits(_)
Digits(k) == IF k < 10 THEN <<k>> ELSE Append(Digits(k \div 10), k % 10)

\* '{:02d}'.format(k) and '%02d' % k: zero-padded to at least two digits
Fmt02(k) == IF Len(Digits(k)) < 2 THEN <<0>> \o Digits(k) ELSE Digits(k)

\* os.path.join(pool_path, '{}_{:02d}.txt'.format(prefix, id_job))
SlotFile(prefix, id_job) == [prefix |-> prefix, num |-> Fmt02(id_job), ext |-> "txt"]

\* os.path.join(pool_path, 'cmd_log.txt')
CmdLogFile == [prefix |-> "cmd_log", num |-> <<>>, ext |-> "txt"]

\* open(file_path, 'w') followed by the writes: the file holds exactly lines
WriteFile(dir, f, lines) ==
    [g \in (DOMAIN dir) \cup {f} |-> IF g = f THEN lines ELSE dir[g]]

RECURSIVE WriteAll(_, _, _, _)
WriteAll(dir, prefix, jobs, id_job) ==
    IF id_job >= Len(jobs) THEN dir
    ELSE WriteAll(WriteFile(dir, SlotFile(prefix, id_job), jobs[id_job + 1]),
                  prefix, jobs, id_job + 1)

\* ================================================================ dispatch.py
Name == "job"       \* config['Name']['name'], the slot-file prefix

\* mutant of NextSlot: wraps one slot early (n >= n_machines - 1 after n += 1)
NextSlot_WrapEarly(n, n_machines) == IF n + 2 >= n_machines THEN 0 ELSE n + 1

\* the slot counter of split_jobs after one append
NextSlot(n, n_machines) == IF n + 1 >= n_machines THEN 0 ELSE n + 1

\* mutant of PutJob: jobs[n].insert(0, k)
PutJob_Prepend(jobs, n, k) == [jobs EXCEPT ![n + 1] = <<k>> \o @]

\* jobs[n].append(k)
PutJob(jobs, n, k) == [jobs EXCEPT ![n + 1] = Append(@, k)]

\* split_jobs, lines 14-19: the round-robin loop (jobs[n] is jobs[n + 1] here)
RECURSIVE SplitLoop(_, _, _, _)
SplitLoop(jobs, n, rest, n_machines) ==
    IF rest = <<>> THEN jobs
    ELSE SplitLoop(PutJob(jobs, n, Head(rest)), NextSlot(n, n_machines),
                   Tail(rest), n_machines)

\* split_jobs, lines 11-19: the per-slot job lists
SplitLists(jobs_in, n_machines) ==
    SplitLoop([s \in 1..n_machines |-> <<>>], 0, jobs_in, n_machines)

\* jobs[0].append(k) on an empty list of lists raises IndexError
SplitRaises(jobs_in, n_machines) == n_machines = 0 /\ jobs_in # <<>>

\* split_jobs, lines 20-26: one file per slot, overwriting
split_jobs(dir, jobs_in, n_machines, prefix) ==
    WriteAll(dir, prefix, SplitLists(jobs_in, n_machines), 0)

\* main, lines 84-88
MachineList(n_cpu, n_gpu) ==
    [k \in 1..n_cpu |-> [kind |-> "cpu", num |-> Fmt02(k)]]
    \o [k \in 1..n_gpu |-> [kind |-> "gpu", num |-> Fmt02(k)]]

\* prepare_exec_args, lines 112-122 (exe_seg, exe_cap, exe_dryrun at default)
prepare_exec_args(a) ==
    IF a.exe_thread > 0 THEN <<"-t", a.exe_thread>> ELSE <<>>

\* main, lines 98-107: the slot count given to split_jobs
Th(a) == IF a.exe_thread < 0 THEN DefaultTh ELSE a.exe_thread
NSlots(a, ml) == IF a.full_file THEN Len(ml) * Th(a) ELSE Len(ml)

\* send_jobs, lines 31-45: one invocation per machine
Invocation(ml, idk, prefix, is_python, exec_args) ==
    [host |-> ml[idk + 1], python |-> is_python, exec_args |-> exec_args,
     job_file |-> SlotFile(prefix, idk)]

BuildCmd(ml, prefix, is_python, exec_args) ==
    [k \in 1..Len(ml) |-> Invocation(ml, k - 1, prefix, is_python, exec_args)]

\* the pool directory before the dispatcher runs: empty, or a previous run's
StaleSlot == 7
StaleCmd == BuildCmd(<<[kind |-> "cpu", num |-> Fmt02(StaleSlot)]>>, Name, TRUE, <<>>)
PoolBefore ==
    { [f \in {} |-> <<>>],
      [f \in {SlotFile(Name, StaleSlot), CmdLogFile} |->
          IF f = CmdLogFile THEN StaleCmd ELSE <<"old">>] }

\* the expectation list is one entry per job of the list it was generated for
ExpectsOfLen(n) == [i \in 1..n |-> <<"expect", i>>]

ClientIdle ==
    /\ c_pc = "idle" /\ c_args = <<>> /\ job_lines = <<>> /\ satisfied = {}
    /\ tasks = <<>> /\ p = <<>> /\ st = <<>> /\ outcome = <<>> /\ outq = <<>>
    /\ log_file = <<>> /\ count = 0 /\ pbar = 0 /\ listed = <<>> /\ ran = <<>>

ReaperIdle ==
    /\ r_pc = "idle" /\ r_in = <<>> /\ r_env = <<>> /\ pids = <<>>
    /\ pids_killed = <<>> /\ r_trace = <<>> /\ msgs = <<>> /\ logged = <<>>

ExistokIdle ==
    e_pc = <<>> /\ e_errno = <<>> /\ e_fs = <<>> /\ e_denied = FALSE

AolibIdle ==
    /\ a_pc = "idle" /\ a_targets = <<>> /\ a_in = <<>> /\ a_view = <<>>
    /\ a_by = <<>> /\ a_res = <<>>

ObjIdle ==
    /\ o_pc = "idle" /\ o_lines = <<>> /\ o_i = 0 /\ o_if = 0 /\ o_f = <<>>
    /\ o_ft = <<>> /\ o_fn = <<>> /\ o_self = <<>>

InitDispatch ==
    /\ d_pc = "start"
    /\ total_jobs \in SeqsUpTo(JobText, MaxJobs)
    /\ \E n \in {Len(total_jobs), Len(total_jobs) + 1} :
           total_expects = ExpectsOfLen(n)
    /\ \E nc \in 0..MaxCpu, ng \in 0..MaxGpu : machine_list = MachineList(nc, ng)
    /\ d_args \in [full_file : BOOLEAN, exe_thread : ExeThreadArgs,
                   try_only : BOOLEAN, no_python : BOOLEAN]
    /\ pool \in PoolBefore
    /\ cmd = <<>>
    /\ called = <<>>
    /\ printed = <<>>
    /\ ClientIdle
    /\ ReaperIdle
    /\ ExistokIdle
    /\ AolibIdle
    /\ ObjIdle

\* main, lines 98-107, when split_jobs returns
D_Split ==
    /\ d_pc = "start"
    /\ ~SplitRaises(total_jobs, NSlots(d_args, machine_list))
    /\ pool' = split_jobs(pool, total_jobs, NSlots(d_args, machine_list), Name)
    /\ d_pc' = "split"
    /\ UNCHANGED <<total_jobs, total_expects, machine_list, d_args, cmd, called,
                   printed>>
    /\ UNCHANGED <<cvars, rvars, evars, avars, ovars>>

\* main, lines 98-107, when split_jobs raises IndexError: main is left
D_SplitRaise ==
    /\ d_pc = "start"
    /\ SplitRaises(total_jobs, NSlots(d_args, machine_list))
    /\ d_pc' = "crashed"
    /\ UNCHANGED <<total_jobs, total_expects, machine_list, d_args, pool, cmd,
                   called, printed>>
    /\ UNCHANGED <<cvars, rvars, evars, avars, ovars>>

\* mutant of D_Send: the dry-run flag is not looked at
D_Send_AlwaysCall ==
    /\ d_pc = "split"
    /\ LET c == BuildCmd(machine_list, Name, ~d_args.no_python,
                         prepare_exec_args(d_args))
       IN /\ cmd' = c
          /\ printed' = c
          /\ pool' = WriteFile(pool, CmdLogFile, c)
    /\ d_pc' = "calling"
    /\ UNCHANGED <<total_jobs, total_expects, machine_list, d_args, called>>
    /\ UNCHANGED <<cvars, rvars, evars, avars, ovars>>

\* mutant of D_Send: the command log is written after the calls, not before
D_Send_LogAfterCalls ==
    /\ d_pc = "split"
    /\ LET c == BuildCmd(machine_list, Name, ~d_args.no_python,
                         prepare_exec_args(d_args))
       IN /\ cmd' = c
          /\ printed' = c
    /\ d_pc' = IF d_args.try_only THEN "done" ELSE "calling"
    /\ UNCHANGED <<total_jobs, total_expects, machine_list, d_args, called, pool>>
    /\ UNCHANGED <<cvars, rvars, evars, avars, ovars>>

\* send_jobs, lines 30-48: build and print the invocations, write the log
D_Send ==
    /\ d_pc = "split"
    /\ LET c == BuildCmd(machine_list, Name, ~d_args.no_python,
                         prepare_exec_args(d_args))
       IN /\ cmd' = c
          /\ printed' = c
          /\ pool' = WriteFile(pool, CmdLogFile, c)
    /\ d_pc' = IF d_args.try_only THEN "done" ELSE "calling"
    /\ UNCHANGED <<total_jobs, total_expects, machine_list, d_args, called>>
    /\ UNCHANGED <<cvars, rvars, evars, avars, ovars>>

\* send_jobs, lines 50-51: call(k, shell=True) for the next invocation; the
\* exit status of ssh is returned by call and dropped
D_Call ==
    /\ d_pc = "calling"
    /\ Len(called) < Len(cmd)
    /\ \E status \in ExitStatus :
           called' = Append(called, [cmd |-> cmd[Len(called) + 1],
                                     status |-> status])
    /\ UNCHANGED <<d_pc, total_jobs, total_expects, machine_list, d_args, pool,
                   cmd, printed>>
    /\ UNCHANGED <<cvars, rvars, evars, avars, ovars>>

\* send_jobs, lines 50-51: call raises (OSError, KeyboardInterrupt) and main
\* is left part-way through the invocations
D_CallAbort ==
    /\ d_pc = "calling"
    /\ Len(called) < Len(cmd)
    /\ d_pc' = "aborted"
    /\ UNCHANGED <<total_jobs, total_expects, machine_list, d_args, pool, cmd,
                   called, printed>>
    /\ UNCHANGED <<cvars, rvars, evars, avars, ovars>>

\* send_jobs returns after the last call
D_Return ==
    /\ d_pc = "calling"
    /\ Len(called) = Len(cmd)
    /\ d_pc' = "done"
    /\ UNCHANGED <<total_jobs, total_expects, machine_list, d_args, pool, cmd,
                   called, printed>>
    /\ UNCHANGED <<cvars, rvars, evars, avars, ovars>>

NextDispatch ==
    D_Split \/ D_SplitRaise \/ D_Send \/ D_Call \/ D_CallAbort \/ D_Return

Spec == InitDispatch /\ [][NextDispatch]_vars

\* ============================================================= exec_client.py
\* args.job_file in --full_file mode: the characters of a path matching \w+\.txt
JobFilePath == <<"j", ".", "t", "x", "t">>

\* a job file of n lines; line i holds command i
JobFile(n) == [i \in 1..n |-> <<"cmd", i>>]

HostLine == [kind |-> "host", task |-> <<>>, status |-> 0]
FailLine(task, s) == [kind |-> "fail", task |-> task, status |-> s]

\* the log file before the client starts: absent, or left by an earlier run
LogBefore == { <<>>, <<HostLine, FailLine(<<"cmd", 1>>, 1)>> }

NoPool == [created |-> FALSE, size |-> 0, closed |-> FALSE]

\* main, lines 40-44: the task list before the cap
ReadTasks(a, lines) == IF a.full_file THEN JobFilePath ELSE lines

\* mutant of CapTasks: tasks[0:args.cap + 1]
CapTasks_OneMore(a, ts) ==
    IF a.cap > 0
    THEN SubSeq(ts, 1, IF a.cap + 1 < Len(ts) THEN a.cap + 1 ELSE Len(ts))
    ELSE ts

\* main, lines 49-50: tasks[0:args.cap]
CapTasks(a, ts) ==
    IF a.cap > 0
    THEN SubSeq(ts, 1, IF a.cap < Len(ts) THEN a.cap ELSE Len(ts))
    ELSE ts

\* mutant of PoolSize: Pool() whatever the thread count
PoolSize_AllCores(a) == IF a.thread = 0 THEN 0 ELSE NCores

\* main, lines 45-48: Pool() has one worker per core, Pool(n) has n
PoolSize(a) == IF a.thread < 0 THEN NCores ELSE a.thread

\* mutant of PoolRaises: Pool(args.thread) without the branch on thread < 0
PoolRaises_NoDefault(a) == a.thread < 1

\* Pool(0) raises ValueError
PoolRaises(a) == PoolSize(a) < 1

\* int(max_ / seg) raises ZeroDivisionError; the handler's pbar.close() then
\* raises UnboundLocalError, which leaves main
SegRaises(a) == a.seg = 0

\* wrapper, lines 17-24: launch is what call(task.strip(), shell=True) did.
\* The except branch reaches sys.std.flush(), which raises AttributeError, so
\* the worker hands back an exception instead of [str(e), task].
wrapper(task, launch) ==
    IF ~launch.raised
    THEN [ok |-> TRUE, s |-> launch.status, task |-> task]
    ELSE [ok |-> FALSE, s |-> 0, task |-> task]

Launches ==
    {[raised |-> FALSE, status |-> x] : x \in ExitStatus}
    \cup {[raised |-> TRUE, status |-> 0]}

NotRun == [ok |-> TRUE, s |-> -1, task |-> <<>>]

DispatchIdle ==
    /\ d_pc = "idle" /\ total_jobs = <<>> /\ total_expects = <<>>
    /\ machine_list = <<>> /\ d_args = <<>> /\ pool = <<>> /\ cmd = <<>>
    /\ called = <<>> /\ printed = <<>>

InitClient ==
    /\ c_pc = "start"
    /\ c_args \in [thread : ThreadArgs, seg : SegArgs, cap : CapArgs,
                   dryrun : BOOLEAN, full_file : BOOLEAN]
    /\ \E n \in 0..MaxTasks : job_lines = JobFile(n)
    /\ c_args.full_file => job_lines = <<>>
    /\ satisfied \in {{}, {1}} \cap SUBSET (1..Len(job_lines))
    /\ tasks = <<>>
    /\ p = NoPool
    /\ st = <<>>
    /\ outcome = <<>>
    /\ outq = <<>>
    /\ log_file \in LogBefore
    /\ count = 0
    /\ pbar = 0
    /\ listed = <<>>
    /\ ran = <<>>
    /\ DispatchIdle
    /\ ReaperIdle
    /\ ExistokIdle
    /\ AolibIdle
    /\ ObjIdle

\* mutant of Setup: the log file is opened with 'w'
Setup_Truncate ==
    /\ ~PoolRaises(c_args)
    /\ p' = [created |-> TRUE, size |-> PoolSize(c_args), closed |-> FALSE]
    /\ tasks' = CapTasks(c_args, ReadTasks(c_args, job_lines))
    /\ log_file' = <<HostLine>>

\* main, lines 38-55, common to the runs in which Pool(...) is created
Setup ==
    /\ ~PoolRaises(c_args)
    /\ p' = [created |-> TRUE, size |-> PoolSize(c_args), closed |-> FALSE]
    /\ tasks' = CapTasks(c_args, ReadTasks(c_args, job_lines))
    /\ log_file' = Append(log_file, HostLine)

\* main, lines 38-48: Pool(args.thread) raises, main is left
C_PoolRaise ==
    /\ c_pc = "start"
    /\ PoolRaises(c_args)
    /\ c_pc' = "raised"
    /\ UNCHANGED <<c_args, job_lines, satisfied, tasks, p, st, outcome, outq,
                   log_file, count, pbar, listed,
                   ran>>
    /\ UNCHANGED <<dvars, rvars, evars, avars, ovars>>

\* main, lines 38-59: the dry run prints every task and returns
C_DryRun ==
    /\ c_pc = "start"
    /\ Setup
    /\ c_args.dryrun
    /\ listed' = tasks'
    /\ c_pc' = "ret_dryrun"
    /\ UNCHANGED <<c_args, job_lines, satisfied, st, outcome, outq, count, pbar,
                   ran>>
    /\ UNCHANGED <<dvars, rvars, evars, avars, ovars>>

\* main, lines 38-61 and 71-72: seg = 0
C_SegRaise ==
    /\ c_pc = "start"
    /\ Setup
    /\ ~c_args.dryrun
    /\ SegRaises(c_args)
    /\ c_pc' = "raised"
    /\ UNCHANGED <<c_args, job_lines, satisfied, st, outcome, outq, count, pbar,
                   listed,
                   ran>>
    /\ UNCHANGED <<dvars, rvars, evars, avars, ovars>>

\* main, lines 38-63: the tasks are handed to p.imap_unordered
C_Submit ==
    /\ c_pc = "start"
    /\ Setup
    /\ ~c_args.dryrun
    /\ ~SegRaises(c_args)
    /\ st' = [i \in 1..Len(tasks') |-> "pending"]
    /\ outcome' = [i \in 1..Len(tasks') |-> NotRun]
    /\ count' = 0
    /\ c_pc' = "loop"
    /\ UNCHANGED <<c_args, job_lines, satisfied, outq, pbar, listed,
                   ran>>
    /\ UNCHANGED <<dvars, rvars, evars, avars, ovars>>

Running == {i \in DOMAIN st : st[i] = "running"}

\* a free worker of the pool takes the next task of the task queue
W_Take(i) ==
    /\ c_pc \in {"loop", "except"}
    /\ st[i] = "pending"
    /\ \A j \in 1..(i - 1) : st[j] # "pending"
    /\ Cardinality(Running) < p.size
    /\ st' = [st EXCEPT ![i] = "running"]
    /\ ran' = Append(ran, i)
    /\ UNCHANGED <<c_pc, c_args, job_lines, satisfied, tasks, p, outcome, outq,
                   log_file, count, pbar, listed>>
    /\ UNCHANGED <<dvars, rvars, evars, avars, ovars>>

\* the worker finishes wrapper(task) and puts the result on the result queue
W_Finish(i, launch) ==
    /\ c_pc \in {"loop", "except"}
    /\ st[i] = "running"
    /\ st' = [st EXCEPT ![i] = "finished"]
    /\ outcome' = [outcome EXCEPT ![i] = wrapper(tasks[i], launch)]
    /\ outq' = Append(outq, i)
    /\ UNCHANGED <<c_pc, c_args, job_lines, satisfied, tasks, p, log_file,
                   count, pbar, listed,
                   ran>>
    /\ UNCHANGED <<dvars, rvars, evars, avars, ovars>>

\* main, lines 64-66: the log after one result
LogResult(lg, r) == IF r.s # 0 THEN Append(lg, FailLine(r.task, r.s)) ELSE lg

\* main, lines 68-70: pbar.update() after the counter was incremented
PbarAfter(n, cnt, seg) == IF cnt % seg = 0 THEN n + 1 ELSE n

\* mutant of M_Result: a task with a non-zero exit status is queued again
M_Result_Retry ==
    /\ c_pc = "loop"
    /\ outq # <<>>
    /\ outcome[Head(outq)].ok
    /\ log_file' = LogResult(log_file, outcome[Head(outq)])
    /\ count' = count + 1
    /\ pbar' = PbarAfter(pbar, count + 1, c_args.seg)
    /\ st' = [st EXCEPT ![Head(outq)] =
                 IF outcome[Head(outq)].s # 0 /\ Len(ran) < 2 * Len(tasks)
                 THEN "pending" ELSE "consumed"]
    /\ outq' = Tail(outq)
    /\ UNCHANGED <<c_pc, c_args, job_lines, satisfied, tasks, p, outcome, listed,
                   ran>>
    /\ UNCHANGED <<dvars, rvars, evars, avars, ovars>>

\* main, lines 63-70: one iteration of the result loop
M_Result ==
    /\ c_pc = "loop"
    /\ outq # <<>>
    /\ outcome[Head(outq)].ok
    /\ log_file' = LogResult(log_file, outcome[Head(outq)])
    /\ count' = count + 1
    /\ pbar' = PbarAfter(pbar, count + 1, c_args.seg)
    /\ st' = [st EXCEPT ![Head(outq)] = "consumed"]
    /\ outq' = Tail(outq)
    /\ UNCHANGED <<c_pc, c_args, job_lines, satisfied, tasks, p, outcome, listed,
                   ran>>
    /\ UNCHANGED <<dvars, rvars, evars, avars, ovars>>

\* main, lines 63 and 71: the iterator re-raises the worker's exception
M_ResultRaises ==
    /\ c_pc = "loop"
    /\ outq # <<>>
    /\ ~outcome[Head(outq)].ok
    /\ st' = [st EXCEPT ![Head(outq)] = "consumed"]
    /\ outq' = Tail(outq)
    /\ c_pc' = "except"
    /\ UNCHANGED <<c_args, job_lines, satisfied, tasks, p, outcome, log_file,
                   count, pbar, listed,
                   ran>>
    /\ UNCHANGED <<dvars, rvars, evars, avars, ovars>>

AllRun == \A i \in DOMAIN st : st[i] \in {"finished", "consumed"}

\* mutant of M_ExceptReturn: the handler returns without p.join()
M_ExceptReturn_NoJoin ==
    /\ c_pc = "except"
    /\ p' = [p EXCEPT !.closed = TRUE]
    /\ c_pc' = "ret_except"
    /\ UNCHANGED <<c_args, job_lines, satisfied, tasks, st, outcome, outq,
                   log_file, count, pbar, listed, ran>>
    /\ UNCHANGED <<dvars, rvars, evars, avars, ovars>>

\* main, lines 72-77: close the pool, wait for the workers, return
M_ExceptReturn ==
    /\ c_pc = "except"
    /\ AllRun
    /\ p' = [p EXCEPT !.closed = TRUE]
    /\ c_pc' = "ret_except"
    /\ UNCHANGED <<c_args, job_lines, satisfied, tasks, st, outcome, outq,
                   log_file, count, pbar, listed,
                   ran>>
    /\ UNCHANGED <<dvars, rvars, evars, avars, ovars>>

\* main, lines 78-80: the loop is exhausted; close, join, return
M_Return ==
    /\ c_pc = "loop"
    /\ \A i \in DOMAIN st : st[i] = "consumed"
    /\ p' = [p EXCEPT !.closed = TRUE]
    /\ c_pc' = "ret_end"
    /\ UNCHANGED <<c_args, job_lines, satisfied, tasks, st, outcome, outq,
                   log_file, count, pbar, listed,
                   ran>>
    /\ UNCHANGED <<dvars, rvars, evars, avars, ovars>>

NextClient ==
    \/ C_PoolRaise
    \/ C_DryRun
    \/ C_SegRaise
    \/ C_Submit
    \/ \E i \in DOMAIN st : W_Take(i)
    \/ \E i \in DOMAIN st, l \in Launches : W_Finish(i, l)
    \/ M_Result
    \/ M_ResultRaises
    \/ M_ExceptReturn
    \/ M_Return

SpecClient == InitClient /\ [][NextClient]_vars

\* the operating system keeps scheduling main and the workers, and every
\* command that was started terminates
SpecClientLive == SpecClient /\ WF_vars(NextClient)

\* ============================================================ kill_clients.py
MaxProcs == 2       \* most lines the remote ps listing returns

LastCpuMachine == 38    \* get_machine_names: range(1, 39)
LastGpuMachine == 39    \* get_machine_names: range(1, 40)

\* 'vision%02d' % e and 'visiongpu%02d' % e
MachineName(prefix, e) == [prefix |-> prefix, num |-> Fmt02(e)]

\* a host outside the two pools
OtherHost == [prefix |-> "laptop", num |-> <<>>]

\* get_machine_names, lines 90-101; <<>> stands for NotImplementedError
get_machine_names(where) ==
    LET cpu_machines == [e \in 1..LastCpuMachine |-> MachineName("vision", e)]
        gpu_machines == [e \in 1..LastGpuMachine |-> MachineName("visiongpu", e)]
    IN  IF where = "cgpu" THEN cpu_machines \o gpu_machines
        ELSE IF where = "cpu" THEN cpu_machines
        ELSE IF where = "gpu" THEN gpu_machines
        ELSE <<>>

WhereArgs == {"cpu", "gpu", "cgpu", "all"}

\* mutant of on_this_machine: the local machine is never recognised
on_this_machine_Never(machine_name, hostname) == FALSE

\* on_this_machine, lines 22-23
on_this_machine(machine_name, hostname) == machine_name = hostname

\* get_pids, lines 30-39: the pids of the lines whose terminal column is '?'
RECURSIVE get_pids(_)
get_pids(ps) ==
    IF ps = <<>> THEN <<>>
    ELSE IF Head(ps).tty = "?" THEN <<Head(ps).pid>> \o get_pids(Tail(ps))
    ELSE get_pids(Tail(ps))

\* the remote ps listing: line i is process i, attached to a terminal or not
PsListings ==
    UNION {[1..n -> {"?", "pts/0"}] : n \in 0..MaxProcs}
PsLines(ttys) == [i \in 1..Len(ttys) |-> [pid |-> i, tty |-> ttys[i]]]

Msg(id, level, text, ps) == [id |-> id, level |-> level, text |-> text, pids |-> ps]

\* kill_machine, line 71
RECURSIVE Unkilled(_, _)
Unkilled(ps, killed) ==
    IF ps = <<>> THEN <<>>
    ELSE IF Head(ps) \in Range(killed) THEN Unkilled(Tail(ps), killed)
    ELSE <<Head(ps)>> \o Unkilled(Tail(ps), killed)

\* kill_machine, lines 72-80: the messages of a reachable machine
RECURSIVE Numbered(_, _)
Numbered(ms, id) ==
    IF ms = <<>> THEN <<>>
    ELSE <<[Head(ms) EXCEPT !.id = id]>> \o Numbered(Tail(ms), id + 1)

\* mutant of KillMsgs: the 'NOT killed' list is pids, not pids_unkilled
KillMsgs_AllPids(ps, killed) ==
    Numbered(
        (IF ps = <<>> THEN <<Msg(0, "info", "No clients found", <<>>)>> ELSE <<>>)
        \o (IF killed # <<>> THEN <<Msg(0, "info", "killed", killed)>> ELSE <<>>)
        \o (IF ps # <<>> THEN <<Msg(0, "warning", "NOT killed", ps)>> ELSE <<>>),
        0)

KillMsgs(ps, killed) ==
    Numbered(
        (IF ps = <<>> THEN <<Msg(0, "info", "No clients found", <<>>)>> ELSE <<>>)
        \o (IF killed # <<>> THEN <<Msg(0, "info", "killed", killed)>> ELSE <<>>)
        \o (IF Unkilled(ps, killed) # <<>>
            THEN <<Msg(0, "warning", "NOT killed", Unkilled(ps, killed))>>
            ELSE <<>>),
        0)

\* one remote operation kill_machine performed, and whether it succeeded
Op(op, pid, ok) == [op |-> op, pid |-> pid, ok |-> ok]

InitReaper ==
    /\ r_pc \in {"main", "kill_machine"}
    /\ r_in \in [entry : {r_pc}, where : WhereArgs,
                 machine_name : {MachineName("vision", 1), MachineName("vision", 2),
                                 MachineName("visiongpu", 1)}]
    /\ r_pc = "main" => r_in.machine_name = MachineName("vision", 1)
    /\ r_pc = "kill_machine" => r_in.where = "cpu"
    /\ \E h \in {MachineName("vision", 1), OtherHost}, ok \in BOOLEAN,
          ttys \in PsListings :
           r_env = [hostname |-> h, ping_ok |-> ok, ps |-> PsLines(ttys)]
    /\ pids = <<>>
    /\ pids_killed = <<>>
    /\ r_trace = <<>>
    /\ msgs = <<>>
    /\ logged = <<>>
    /\ DispatchIdle
    /\ ClientIdle
    /\ ExistokIdle
    /\ AolibIdle
    /\ ObjIdle

\* main, lines 104-109: get_machine_names raises NotImplementedError, or the
\* first args.append((m, args.user, args.job_name)) reads .user of the list
\* that args was rebound to on line 107 and raises AttributeError
R_Main ==
    /\ r_pc = "main"
    /\ r_pc' = IF get_machine_names(r_in.where) = <<>>
               THEN "raised NotImplementedError"
               ELSE "raised AttributeError"
    /\ UNCHANGED <<r_in, r_env, pids, pids_killed, r_trace, msgs, logged>>
    /\ UNCHANGED <<dvars, cvars, evars, avars, ovars>>

\* kill_machine, lines 51-60: the machine is the local one
K_Self ==
    /\ r_pc = "kill_machine"
    /\ on_this_machine(r_in.machine_name, r_env.hostname)
    /\ msgs' = <<Msg(0, "info", "Skip killing, since you are on it", <<>>)>>
    /\ r_pc' = "returned"
    /\ UNCHANGED <<r_in, r_env, pids, pids_killed, r_trace, logged>>
    /\ UNCHANGED <<dvars, cvars, evars, avars, ovars>>

\* kill_machine, lines 51-64 and 81: the ping fails
K_PingFail ==
    /\ r_pc = "kill_machine"
    /\ ~on_this_machine(r_in.machine_name, r_env.hostname)
    /\ ~r_env.ping_ok
    /\ r_trace' = Append(r_trace, Op("ping", 0, FALSE))
    /\ msgs' = <<Msg(0, "error", "Can't ping", <<>>)>>
    /\ r_pc' = "returned"
    /\ UNCHANGED <<r_in, r_env, pids, pids_killed, logged>>
    /\ UNCHANGED <<dvars, cvars, evars, avars, ovars>>

\* mutant of K_List: the processes are listed whatever the ping said
K_List_NoPingTest ==
    /\ r_pc = "kill_machine"
    /\ ~on_this_machine(r_in.machine_name, r_env.hostname)
    /\ r_trace' = r_trace \o <<Op("ping", 0, r_env.ping_ok), Op("list", 0, TRUE)>>
    /\ pids' = get_pids(r_env.ps)
    /\ pids_killed' = <<>>
    /\ r_pc' = "killing"
    /\ UNCHANGED <<r_in, r_env, msgs, logged>>
    /\ UNCHANGED <<dvars, cvars, evars, avars, ovars>>

\* kill_machine, lines 51-67: the ping succeeds and the processes are listed
K_List ==
    /\ r_pc = "kill_machine"
    /\ ~on_this_machine(r_in.machine_name, r_env.hostname)
    /\ r_env.ping_ok
    /\ r_trace' = r_trace \o <<Op("ping", 0, TRUE), Op("list", 0, TRUE)>>
    /\ pids' = get_pids(r_env.ps)
    /\ pids_killed' = <<>>
    /\ r_pc' = "killing"
    /\ UNCHANGED <<r_in, r_env, msgs, logged>>
    /\ UNCHANGED <<dvars, cvars, evars, avars, ovars>>

Attempts == {k \in 1..Len(r_trace) : r_trace[k].op = "kill"}

\* kill_machine, lines 68-70: ssh_kill_process for the next pid
K_Kill ==
    /\ r_pc = "killing"
    /\ Cardinality(Attempts) < Len(pids)
    /\ LET pid == pids[Cardinality(Attempts) + 1]
       IN \E killed \in BOOLEAN :
              /\ r_trace' = Append(r_trace, Op("kill", pid, killed))
              /\ pids_killed' = IF killed THEN Append(pids_killed, pid)
                                ELSE pids_killed
    /\ UNCHANGED <<r_pc, r_in, r_env, pids, msgs, logged>>
    /\ UNCHANGED <<dvars, cvars, evars, avars, ovars>>

\* kill_machine, lines 71-81: the messages of the machine
K_Report ==
    /\ r_pc = "killing"
    /\ Cardinality(Attempts) = Len(pids)
    /\ msgs' = KillMsgs(pids, pids_killed)
    /\ r_pc' = "returned"
    /\ UNCHANGED <<r_in, r_env, pids, pids_killed, r_trace, logged>>
    /\ UNCHANGED <<dvars, cvars, evars, avars, ovars>>

NextReaper == R_Main \/ K_Self \/ K_PingFail \/ K_List \/ K_Kill \/ K_Report

SpecReaper == InitReaper /\ [][NextReaper]_vars

\* ===================================================== xiuminglib/decorators.py
NWorkers == 2       \* parallel workers calling the wrapped makedirs
MaxCalls == 2       \* calls one worker makes one after the other

EEXIST == 17        \* the errno that existok compares with

\* errnos of an OSError other than the one existok compares with
OtherErrnos == {EEXIST - 1, EEXIST + 1}

Workers == 1..NWorkers

\* mutant of existok: every OSError is raised again
existok_Reraise(errno) == IF errno = 0 THEN "returned" ELSE "raised"

\* existok.wrapper, lines 43-49: what the wrapped call does with the errno of
\* the OSError that makedirs_func raised (0: it raised nothing)
existok(errno) == IF errno \in {0, EEXIST} THEN "returned" ELSE "raised"

\* a worker's position, and what the parent test found in each of its calls
At(at, found) == [at |-> at, found |-> found]

\* the path is head/leaf; head is missing or a directory, leaf is missing, a
\* directory or a regular file; e_denied: creating an entry fails with another errno
InitExistok ==
    /\ e_pc = [w \in Workers |-> At("idle", <<>>)]
    /\ e_errno = [w \in Workers |-> <<>>]
    /\ e_fs \in [head : {"none", "dir"}, leaf : {"none", "dir", "file"}]
    /\ e_fs.head = "none" => e_fs.leaf = "none"
    /\ e_denied \in BOOLEAN
    /\ DispatchIdle
    /\ ClientIdle
    /\ ReaperIdle
    /\ AolibIdle
    /\ ObjIdle

\* lines 63-65: a worker calls the wrapped makedirs (again)
E_Call(w) ==
    /\ e_pc[w].at \in {"idle", "returned"}
    /\ Len(e_errno[w]) < MaxCalls
    /\ e_pc' = [e_pc EXCEPT ![w] = At("check", e_pc[w].found)]
    /\ UNCHANGED <<e_errno, e_fs, e_denied>>
    /\ UNCHANGED <<dvars, cvars, rvars, avars, ovars>>

\* line 45, makedirs: the test whether the parent exists
E_CheckHead(w) ==
    /\ e_pc[w].at = "check"
    /\ e_pc' = [e_pc EXCEPT ![w] =
                   IF e_fs.head = "none"
                   THEN At("mkhead", Append(e_pc[w].found, "missing"))
                   ELSE At("mkleaf", Append(e_pc[w].found, "present"))]
    /\ UNCHANGED <<e_errno, e_fs, e_denied>>
    /\ UNCHANGED <<dvars, cvars, rvars, avars, ovars>>

\* the end of the wrapped call, lines 44-49
Finish(w, errno) ==
    /\ e_errno' = [e_errno EXCEPT ![w] = Append(@, errno)]
    /\ e_pc' = [e_pc EXCEPT ![w] = At(existok(errno), e_pc[w].found)]

\* line 45, makedirs: the parent is created; makedirs itself tolerates a
\* parent that another worker created since the test
E_MkHead(w) ==
    /\ e_pc[w].at = "mkhead"
    /\ IF e_fs.head = "dir"
       THEN /\ e_pc' = [e_pc EXCEPT ![w] = At("mkleaf", e_pc[w].found)]
            /\ UNCHANGED <<e_errno, e_fs>>
       ELSE IF e_denied
       THEN /\ \E errno \in OtherErrnos : Finish(w, errno)
            /\ UNCHANGED e_fs
       ELSE /\ e_fs' = [e_fs EXCEPT !.head = "dir"]
            /\ e_pc' = [e_pc EXCEPT ![w] = At("mkleaf", e_pc[w].found)]
            /\ UNCHANGED e_errno
    /\ UNCHANGED e_denied
    /\ UNCHANGED <<dvars, cvars, rvars, avars, ovars>>

\* line 45, makedirs: mkdir of the path itself, and lines 46-49
E_MkLeaf(w) ==
    /\ e_pc[w].at = "mkleaf"
    /\ IF e_fs.leaf # "none"
       THEN /\ Finish(w, EEXIST)
            /\ UNCHANGED e_fs
       ELSE IF e_denied
       THEN /\ \E errno \in OtherErrnos : Finish(w, errno)
            /\ UNCHANGED e_fs
       ELSE /\ Finish(w, 0)
            /\ e_fs' = [e_fs EXCEPT !.leaf = "dir"]
    /\ UNCHANGED e_denied
    /\ UNCHANGED <<dvars, cvars, rvars, avars, ovars>>

NextExistok ==
    \E w \in Workers : E_Call(w) \/ E_CheckHead(w) \/ E_MkHead(w) \/ E_MkLeaf(w)

SpecExistok == InitExistok /\ [][NextExistok]_vars

\* ================================================ external/aolib/old.iputil.py
MaxEngineId == 3    \* engine ids are 0..MaxEngineId
MaxParts == 3       \* largest number of partitions n
MaxXs == 2          \* longest input list of map_sync

InnerParts == 2     \* test_partition: iputil.partition(2, 1) inside f
InnerPart == 1
InnerLen == 10      \* test_partition: range(10) inside f

\* the ids of a set of engines in increasing order, as rc()[:].targets has them
RECURSIVE SortedSeq(_)
SortedSeq(S) ==
    IF S = {} THEN <<>>
    ELSE LET m == CHOOSE x \in S : \A y \in S : x <= y
         IN  <<m>> \o SortedSeq(S \ {m})

\* range(n)
PyRange(n) == [k \in 1..n |-> k - 1]

RECURSIVE Sum(_)
Sum(s) == IF s = <<>> THEN 0 ELSE Head(s) + Sum(Tail(s))

\* mutant of partition: j / n == i instead of j % n == i
partition_Div(ts, n, i) ==
    LET Keep(j) == j \div n = i IN SelectSeq(ts, Keep)

\* Parallel.partition, line 70: [j for j in self.rc()[:].targets if j % n == i]
partition(ts, n, i) ==
    LET Keep(j) == j % n = i IN SelectSeq(ts, Keep)

NoEngine == -1

\* test_partition: the mapped function; lambda x: x, or f, which maps
\* lambda x: x over range(10) through partition(2, 1) and sums the results
Mapped(nested, x) == IF nested THEN Sum(PyRange(InnerLen)) ELSE x

\* f runs on an engine and builds partition(2, 1) of all the engines there
InnerView == partition(a_targets, InnerParts, InnerPart)

InitAolib ==
    /\ a_pc = "start"
    /\ \E S \in SUBSET (0..MaxEngineId) : a_targets = SortedSeq(S)
    /\ \E n \in 1..MaxParts, i \in 0..(MaxParts - 1), m \in 0..MaxXs, nested \in BOOLEAN :
           /\ i < n
           /\ a_in = [n |-> n, i |-> i, xs |-> PyRange(m), nested |-> nested]
    /\ a_view = <<>>
    /\ a_by = <<>>
    /\ a_res = <<>>
    /\ DispatchIdle
    /\ ClientIdle
    /\ ReaperIdle
    /\ ExistokIdle
    /\ ObjIdle

\* Parallel.partition, lines 69-71; a view of no engine cannot be built:
\* self.rc()[target_subset] raises for an empty target list
A_Partition ==
    /\ a_pc = "start"
    /\ a_view' = partition(a_targets, a_in.n, a_in.i)
    /\ a_pc' = IF a_view' = <<>> THEN "raised" ELSE "partitioned"
    /\ UNCHANGED <<a_targets, a_in, a_by, a_res>>
    /\ UNCHANGED <<dvars, cvars, rvars, evars, ovars>>

\* map_sync, lines 181-187: an empty input list gives an empty result list
A_MapEmpty ==
    /\ a_pc = "partitioned"
    /\ a_in.xs = <<>>
    /\ a_res' = <<>>
    /\ a_pc' = "returned"
    /\ UNCHANGED <<a_targets, a_in, a_view, a_by>>
    /\ UNCHANGED <<dvars, cvars, rvars, evars, ovars>>

\* map_sync, lines 189-193: the elements are handed to the view
A_Submit ==
    /\ a_pc = "partitioned"
    /\ a_in.xs # <<>>
    /\ a_by' = [k \in 1..Len(a_in.xs) |-> NoEngine]
    /\ a_pc' = "mapping"
    /\ UNCHANGED <<a_targets, a_in, a_view, a_res>>
    /\ UNCHANGED <<dvars, cvars, rvars, evars, ovars>>

\* one engine of the view applies the mapped function to one element; the
\* nested map of f raises when partition(2, 1) has no engine
A_Run(k, e) ==
    /\ a_pc = "mapping"
    /\ a_by[k] = NoEngine
    /\ e \in Range(a_view)
    /\ IF a_in.nested /\ InnerView = <<>>
       THEN a_pc' = "raised" /\ UNCHANGED a_by
       ELSE a_by' = [a_by EXCEPT ![k] = e] /\ UNCHANGED a_pc
    /\ UNCHANGED <<a_targets, a_in, a_view, a_res>>
    /\ UNCHANGED <<dvars, cvars, rvars, evars, ovars>>

\* map_sync, lines 193-197: the view's map_sync returns the results of all
\* the elements in input order
A_Return ==
    /\ a_pc = "mapping"
    /\ \A k \in DOMAIN a_by : a_by[k] # NoEngine
    /\ a_res' = [k \in DOMAIN a_by |-> Mapped(a_in.nested, a_in.xs[k])]
    /\ a_pc' = "returned"
    /\ UNCHANGED <<a_targets, a_in, a_view, a_by>>
    /\ UNCHANGED <<dvars, cvars, rvars, evars, ovars>>

NextAolib ==
    \/ A_Partition
    \/ A_MapEmpty
    \/ A_Submit
    \/ \E k \in DOMAIN a_by, e \in 0..MaxEngineId : A_Run(k, e)
    \/ A_Return

SpecAolib == InitAolib /\ [][NextAolib]_vars

\* ================================================= xiuminglib/GeometryModels.py
MaxLines == 2       \* most non-empty lines of the .obj file
MaxVerts == 2       \* most vertices of a face line

\* the forms of one vertex of a face line: 1, 1/1, 1//1, 1/1/1, and a form
\* with one field too many
Kinds == {"v", "v/t", "v//n", "v/t/n", "v/t/n/x"}

\* a line of the file: a face of n vertices (the first of one form, the others
\* of another), a geometric vertex, or a line of no known type
FaceLine(first, rest, n) == [type |-> "f", first |-> first, rest |-> rest, n |-> n]
VertexLine == [type |-> "v", first |-> "v", rest |-> "v", n |-> 1]
UnknownLine == [type |-> "?", first |-> "v", rest |-> "v", n |-> 1]

LineSet ==
    {FaceLine(k, k, 1) : k \in Kinds}
    \cup {FaceLine(k1, k2, MaxVerts) : k1 \in Kinds, k2 \in Kinds}
    \cup {VertexLine, UnknownLine}

KindAt(l, k) == IF k = 1 THEN l.first ELSE l.rest

\* l[2:].split(' ')[0].count('/')
Slashes(kind) ==
    IF kind = "v" THEN 0
    ELSE IF kind = "v/t" THEN 1
    ELSE IF kind \in {"v//n", "v/t/n"} THEN 2
    ELSE 3

\* l[2:].split(' ')[0].count('//') == 1
DoubleSlash(kind) == kind = "v//n"

Empty == 0          \* the empty string between two slashes; int('') raises
Bad == -1           \* a string that int() rejects, or an index out of range

\* x.split('/') for vertex k of the line; every index of vertex k is k
Split(kind, k) ==
    IF kind = "v" THEN <<k>>
    ELSE IF kind = "v/t" THEN <<k, k>>
    ELSE IF kind = "v//n" THEN <<k, Empty, k>>
    ELSE IF kind = "v/t/n" THEN <<k, k, k>>
    ELSE <<k, k, k, k>>

\* x.split('//'): only the form 1//1 has two pieces, any other form stays
\* whole and is an int only when it has no slash
SplitDD(kind, k) ==
    IF kind = "v//n" THEN <<k, k>>
    ELSE IF kind = "v" THEN <<k>>
    ELSE <<Bad>>

\* int(x) for the whole of vertex k
WholeInt(kind, k) == IF kind = "v" THEN k ELSE Bad

\* int(pieces[idx]): Bad when the index is out of range or int() raises
Pick(pieces, idx) ==
    IF idx > Len(pieces) THEN Bad
    ELSE IF pieces[idx] <= 0 THEN Bad
    ELSE pieces[idx]

\* a list entry that was assigned, and the None it is initialised with
Some(val) == [none |-> FALSE, val |-> val]
None == [none |-> TRUE, val |-> <<>>]

\* load_file, lines 152-173: what the branch on n_slashes assigns to f[i_f],
\* ft[i_f] and fn[i_f]; no branch is taken for more than two slashes
ParseFace(l) ==
    LET ns == Slashes(l.first)
        Ix == 1..l.n
    IN  IF ns = 0
        THEN [f |-> Some([k \in Ix |-> WholeInt(KindAt(l, k), k)]),
              ft |-> Some(<<>>), fn |-> Some(<<>>)]
        ELSE IF ns = 1
        THEN [f |-> Some([k \in Ix |-> Pick(Split(KindAt(l, k), k), 1)]),
              ft |-> Some([k \in Ix |-> Pick(Split(KindAt(l, k), k), 2)]),
              fn |-> Some(<<>>)]
        ELSE IF ns = 2 /\ DoubleSlash(l.first)
        THEN [f |-> Some([k \in Ix |-> Pick(SplitDD(KindAt(l, k), k), 1)]),
              ft |-> Some(<<>>),
              fn |-> Some([k \in Ix |-> Pick(SplitDD(KindAt(l, k), k), 2)])]
        ELSE IF ns = 2
        THEN [f |-> Some([k \in Ix |-> Pick(Split(KindAt(l, k), k), 1)]),
              ft |-> Some([k \in Ix |-> Pick(Split(KindAt(l, k), k), 2)]),
              fn |-> Some([k \in Ix |-> Pick(Split(KindAt(l, k), k), 3)])]
        ELSE [f |-> None, ft |-> None, fn |-> None]

\* one of the list comprehensions of the branch raised
ParseRaises(r) ==
    \E x \in {r.f, r.ft, r.fn} : \E k \in 1..Len(x.val) : x.val[k] = Bad

\* any(len(x) > 0 for x in xs): "raises" when a None is met before a
\* non-empty entry
RECURSIVE AnyNonEmpty(_)
AnyNonEmpty(xs) ==
    IF xs = <<>> THEN "false"
    ELSE IF Head(xs).none THEN "raises"
    ELSE IF Len(Head(xs).val) > 0 THEN "true"
    ELSE AnyNonEmpty(Tail(xs))

FaceLines(ls) == SelectSeq(ls, LAMBDA l : l.type = "f")

InitObj ==
    /\ o_pc = "start"
    /\ o_lines \in SeqsUpTo(LineSet, MaxLines)
    /\ o_i = 0
    /\ o_if = 0
    /\ o_f = <<>>
    /\ o_ft = <<>>
    /\ o_fn = <<>>
    /\ o_self = <<>>
    /\ DispatchIdle
    /\ ClientIdle
    /\ ReaperIdle
    /\ ExistokIdle
    /\ AolibIdle

\* load_file, lines 97-128: the lines are read and counted, the lists are
\* initialised with None
O_Start ==
    /\ o_pc = "start"
    /\ o_f' = [k \in 1..Len(FaceLines(o_lines)) |-> None]
    /\ o_ft' = [k \in 1..Len(FaceLines(o_lines)) |-> None]
    /\ o_fn' = [k \in 1..Len(FaceLines(o_lines)) |-> None]
    /\ o_i' = 1
    /\ o_if' = 0
    /\ o_pc' = "loop"
    /\ UNCHANGED <<o_lines, o_self>>
    /\ UNCHANGED <<dvars, cvars, rvars, evars, avars>>

\* load_file, lines 130-176: one line of the loop
O_Line ==
    /\ o_pc = "loop"
    /\ o_i <= Len(o_lines)
    /\ LET l == o_lines[o_i]
           r == ParseFace(l)
       IN  IF l.type = "?" \/ (l.type = "f" /\ ParseRaises(r))
           THEN /\ o_pc' = "raised"
                /\ UNCHANGED <<o_i, o_if, o_f, o_ft, o_fn>>
           ELSE IF l.type = "f"
           THEN /\ o_f' = [o_f EXCEPT ![o_if + 1] = r.f]
                /\ o_ft' = [o_ft EXCEPT ![o_if + 1] = r.ft]
                /\ o_fn' = [o_fn EXCEPT ![o_if + 1] = r.fn]
                /\ o_if' = o_if + 1
                /\ o_i' = o_i + 1
                /\ UNCHANGED o_pc
           ELSE /\ o_i' = o_i + 1
                /\ UNCHANGED <<o_pc, o_if, o_f, o_ft, o_fn>>
    /\ UNCHANGED <<o_lines, o_self>>
    /\ UNCHANGED <<dvars, cvars, rvars, evars, avars>>

\* load_file, lines 178-188: the object is updated
O_Update ==
    /\ o_pc = "loop"
    /\ o_i > Len(o_lines)
    /\ IF AnyNonEmpty(o_ft) = "raises" \/ AnyNonEmpty(o_fn) = "raises"
       THEN o_pc' = "raised" /\ UNCHANGED o_self
       ELSE /\ o_self' = [f |-> Some(o_f),
                          ft |-> IF AnyNonEmpty(o_ft) = "true" THEN Some(o_ft) ELSE None,
                          fn |-> IF AnyNonEmpty(o_fn) = "true" THEN Some(o_fn) ELSE None]
            /\ o_pc' = "done"
    /\ UNCHANGED <<o_lines, o_i, o_if, o_f, o_ft, o_fn>>
    /\ UNCHANGED <<dvars, cvars, rvars, evars, avars>>

NextObj == O_Start \/ O_Line \/ O_Update

SpecObj == InitObj /\ [][NextObj]_vars

\* ======================================================= dispatcher properties
NS == NSlots(d_args, machine_list)
SplitDone == d_pc \in {"split", "calling", "done"}
SentDone == d_pc \in {"calling", "done"}
SlotLines(s) == pool[SlotFile(Name, s)]
AllSlotLines == Concat([k \in 1..NS |-> SlotLines(k - 1)])

\* C1: for every job list and slot count N > 0, job i (0-based) is in the file
\* of slot i mod N, and the slot files together hold every job exactly as often
\* as the job list does (nothing lost, nothing duplicated).
C1_RoundRobin ==
    (SplitDone /\ NS > 0) =>
        /\ \A i \in 0..(Len(total_jobs) - 1) :
               total_jobs[i + 1] \in Range(SlotLines(i % NS))
        /\ SeqToBag(AllSlotLines) = SeqToBag(total_jobs)

\* C1 witness: a split over at least two slots in which the counter wrapped
C1_Witness ==
    SplitDone /\ NS >= 2 /\ Len(total_jobs) > NS
    /\ Len(SlotLines(0)) >= 2 /\ Len(SlotLines(1)) >= 1

\* C2: job i is line floor(i / N) of slot i mod N, every slot file has exactly
\* the lines of its residue class, and re-interleaving the slot files (line p of
\* slot s goes to index p * N + s) gives back the job list.
C2_StableBijection ==
    (SplitDone /\ NS > 0) =>
        /\ \A s \in 0..(NS - 1) :
               Len(SlotLines(s)) =
                   Cardinality({i \in 0..(Len(total_jobs) - 1) : i % NS = s})
        /\ \A i \in 0..(Len(total_jobs) - 1) :
               SlotLines(i % NS)[(i \div NS) + 1] = total_jobs[i + 1]
        /\ [i \in 1..Len(AllSlotLines) |->
               SlotLines((i - 1) % NS)[((i - 1) \div NS) + 1]] = total_jobs

\* C2 witness: a slot file holding two different jobs in their original order
C2_Witness ==
    SplitDone /\ NS > 0 /\ Len(SlotLines(0)) >= 2
    /\ SlotLines(0)[1] # SlotLines(0)[2]
    /\ SlotLines(0)[1] = total_jobs[1]

\* the expectation paired with the command on line i of slot s
ExpectOfLine(s, i) == total_expects[(i - 1) * NS + s + 1]

\* C4: after splitting, every slot has an expectation file whose line i is the
\* expectation of the command on line i of the slot's command file.
C4_PositionalCorrespondence ==
    SplitDone =>
        \A s \in 0..(NS - 1) : \A i \in 1..Len(SlotLines(s)) :
            \E g \in DOMAIN pool :
                /\ g.ext = "expects"
                /\ g.num = Fmt02(s)
                /\ i \in 1..Len(pool[g])
                /\ (i - 1) * NS + s + 1 \in 1..Len(total_expects)
                /\ pool[g][i] = ExpectOfLine(s, i)

\* C5: splitting fails whenever the command list and the expectation list
\* differ in length (no successful split, no slot file written).
C5_LengthMismatchFails ==
    (Len(total_jobs) # Len(total_expects)) =>
        /\ ~SplitDone
        /\ pool \in PoolBefore

\* C6: there is exactly one invocation per machine, in machine order, and the
\* invocation of the machine at position k names the file the splitter wrote
\* for slot k.
C6_WriterReaderAgree ==
    SentDone =>
        /\ Len(cmd) = Len(machine_list)
        /\ \A k \in 1..Len(cmd) :
               /\ cmd[k].host = machine_list[k]
               /\ k <= NS
               /\ cmd[k].job_file = SlotFile(Name, k - 1)
               /\ cmd[k].job_file \in DOMAIN pool
               /\ pool[cmd[k].job_file] = SplitLists(total_jobs, NS)[k]

\* the invocation list send_jobs builds for the machine list, dry run or not
WouldBeCmd ==
    [k \in 1..Len(machine_list) |->
        [host |-> machine_list[k], python |-> ~d_args.no_python,
         exec_args |-> prepare_exec_args(d_args),
         job_file |-> SlotFile(Name, k - 1)]]

\* C12: with dry-run enabled the dispatcher issues no SSH invocation at all,
\* and the would-be invocations are printed and written to the command log
\* exactly as in a real run.
C12_DispatcherDryRun ==
    /\ d_args.try_only => called = <<>>
    /\ d_pc = "done" =>
           /\ printed = WouldBeCmd
           /\ pool[CmdLogFile] = WouldBeCmd

\* C12 witness: a finished dry run over at least two machines
C12_Witness ==
    d_args.try_only /\ d_pc = "done" /\ Len(cmd) >= 2 /\ called = <<>>

\* C13: from before the first invocation on, the command log holds one line
\* per machine in machine-list order, whatever the outcome of the invocations
\* (success, failure, or an abort part-way through).
C13_AuditLog ==
    (called # <<>> \/ d_pc \in {"calling", "done", "aborted"}) =>
        /\ CmdLogFile \in DOMAIN pool
        /\ Len(pool[CmdLogFile]) = Len(machine_list)
        /\ \A k \in 1..Len(machine_list) :
               /\ pool[CmdLogFile][k].host = machine_list[k]
               /\ pool[CmdLogFile][k] = cmd[k]

\* C13 witness: the run was aborted after a failed invocation, before the last
C13_Witness ==
    /\ d_pc = "aborted" /\ called # <<>> /\ Len(called) < Len(cmd)
    /\ called[1].status # 0

\* C14: after the dispatcher has written its files the pool directory holds
\* only the command log and slot files of this invocation, each with exactly
\* this run's jobs of its slot.
C14_FreshPool ==
    SentDone =>
        \A f \in DOMAIN pool :
            \/ f = CmdLogFile
            \/ \E s \in 0..(NS - 1) :
                   /\ f = SlotFile(Name, s)
                   /\ pool[f] = SplitLists(total_jobs, NS)[s + 1]

\* =========================================================== client properties
Scheduled(i) == i \in DOMAIN st
Submitted == c_pc \in {"loop", "except", "ret_except", "ret_end"}
Returned == c_pc \in {"ret_dryrun", "ret_except", "ret_end"}
PlainRun == ~c_args.full_file /\ c_args.cap <= 0
Executed(i) == st[i] \in {"finished", "consumed"}
Failed(i) == Executed(i) /\ (~outcome[i].ok \/ outcome[i].s # 0)

\* C3: when the client has scanned its list, a command whose expected output
\* files all exist is not scheduled, and a command with a missing expected file
\* is scheduled.
C3_IdempotentSkip ==
    (Submitted /\ PlainRun) =>
        \A i \in 1..Len(job_lines) :
            /\ i \in satisfied => ~Scheduled(i)
            /\ i \notin satisfied => Scheduled(i)

\* C7: a failing job (non-zero exit status or a launch failure) does not stop
\* the client: every other task is still executed and main reaches its normal
\* end (lines 78-80), never the exception handler.
C7_FailureNotFatal ==
    /\ (c_pc \in {"ret_except", "ret_end"}) => AllRun
    /\ (Submitted /\ \E i \in DOMAIN st : Failed(i)) =>
           c_pc \notin {"except", "ret_except"}

\* the entries this invocation appended after its hostname line
RECURSIVE AfterLastHost(_)
AfterLastHost(lg) ==
    IF lg = <<>> \/ lg[Len(lg)].kind = "host" THEN <<>>
    ELSE Append(AfterLastHost(SubSeq(lg, 1, Len(lg) - 1)), lg[Len(lg)])

Entries(task, s) ==
    Cardinality({k \in 1..Len(AfterLastHost(log_file)) :
                    AfterLastHost(log_file)[k] = FailLine(task, s)})

\* C8: when the client has returned, every executed task with a non-zero exit
\* status has exactly one log entry with its command and status (as many entries
\* as tasks with that command and status), and a task that exited with 0 has none.
C8_FailuresLogged ==
    (c_pc \in {"ret_except", "ret_end"}) =>
        \A i \in DOMAIN st :
            (Executed(i) /\ outcome[i].ok) =>
                IF outcome[i].s # 0
                THEN Entries(tasks[i], outcome[i].s) =
                         Cardinality({j \in DOMAIN st :
                             /\ Executed(j) /\ outcome[j].ok
                             /\ tasks[j] = tasks[i]
                             /\ outcome[j].s = outcome[i].s})
                ELSE Entries(tasks[i], 0) = 0

EmptyJobSet == ReadTasks(c_args, job_lines) = <<>>
UsableArgs == c_args.thread # 0 /\ (c_args.dryrun \/ c_args.seg # 0)

\* C9 as stated: a client whose task list is empty terminates without error and
\* executes no command.
C9_EmptyNoError ==
    EmptyJobSet => (c_pc # "raised" /\ DOMAIN st = {})

\* C9 amended: with a thread count other than 0 and, outside the dry run, a
\* segment size other than 0, a client whose task list is empty never raises,
\* executes no command, and has nothing to wait for before it returns.
C9_EmptyJobSet ==
    (EmptyJobSet /\ UsableArgs) =>
        /\ c_pc \in {"start", "ret_dryrun", "loop", "ret_end"}
        /\ DOMAIN st = {}
        /\ outq = <<>>
        /\ c_pc = "loop" => ENABLED M_Return
        /\ c_pc = "ret_end" => (p.closed /\ count = 0)

\* C9 witness: the client returned from its normal end with an empty task list
C9_Witness ==
    EmptyJobSet /\ UsableArgs /\ c_pc = "ret_end" /\ tasks = <<>>

\* C10: with the dry-run flag, no worker pool is created, no task is executed,
\* and the client lists each would-be command once and returns.
C10_DryRunNoPool ==
    c_args.dryrun =>
        /\ ~p.created
        /\ DOMAIN st = {}
        /\ c_pc = "ret_dryrun" => listed = tasks

\* C11: with the dry-run flag no file is modified: the log file has the same
\* content after every step of the client as before it.
C11_DryRunNoWrite == [][c_args.dryrun => log_file' = log_file]_vars

Runs(i) == Cardinality({k \in 1..Len(ran) : ran[k] = i})

\* C19: no task is ever executed twice, and when the client has returned from
\* the result loop every scheduled task was executed exactly once, whether it
\* succeeded or failed.
C19_ExactlyOnce ==
    /\ \A i \in DOMAIN st : Runs(i) <= 1
    /\ (c_pc \in {"ret_except", "ret_end"}) =>
           /\ DOMAIN st = DOMAIN tasks
           /\ \A i \in DOMAIN tasks : Runs(i) = 1 /\ Executed(i)

\* C19 witness: the client returned after two tasks, one of which failed
C19_Witness ==
    /\ c_pc = "ret_end" /\ Len(tasks) >= 2
    /\ \E i \in DOMAIN st : outcome[i].s # 0
    /\ \A i \in DOMAIN st : Runs(i) = 1

Terminated == c_pc \in {"ret_dryrun", "ret_except", "ret_end", "raised"}

\* C20: the client eventually terminates, and it never returns from the result
\* loop while a scheduled task is pending or running.
C20_ClientTerminates ==
    /\ <>Terminated
    /\ []((c_pc \in {"ret_except", "ret_end"}) =>
             \A i \in DOMAIN tasks : Executed(i))

\* C20 witness: the client returned through its handler after all tasks ended
C20_Witness ==
    c_pc = "ret_except" /\ Len(tasks) >= 2 /\ AllRun /\ Running = {}

\* ========================================================== reaper properties
\* C15: for the machine whose name equals the local hostname, kill_machine
\* issues no ping, no remote listing and no kill; it records the skip message
\* only and returns.
C15_SelfExclusion ==
    (r_in.entry = "kill_machine" /\ r_in.machine_name = r_env.hostname) =>
        /\ r_trace = <<>>
        /\ pids = <<>> /\ pids_killed = <<>>
        /\ r_pc \in {"kill_machine", "returned"}
        /\ r_pc = "returned" =>
               msgs = <<Msg(0, "info", "Skip killing, since you are on it", <<>>)>>

\* C15 witness: kill_machine returned for the local machine
C15_Witness ==
    /\ r_in.entry = "kill_machine" /\ r_in.machine_name = r_env.hostname
    /\ r_pc = "returned" /\ r_env.ping_ok /\ get_pids(r_env.ps) # <<>>

MainEnded == r_in.entry = "main" /\ r_pc # "main"

\* C16: the reaper always completes and reports: main, started on one of the
\* machine pools, does not end in an exception.
C16_ReaperCompletes ==
    (MainEnded /\ r_in.where \in {"cpu", "gpu", "cgpu"}) => r_pc = "done"

\* 'vision..' sorts before 'visiongpu..' and the two digits sort by number
MachineRank(m) ==
    CHOOSE k \in 1..(LastCpuMachine + LastGpuMachine) : get_machine_names("cgpu")[k] = m

\* C17: when main has ended, the messages of every machine of the pool have
\* been logged, sorted by machine name.
C17_ReportSorted ==
    (MainEnded /\ r_in.where \in {"cpu", "gpu", "cgpu"}) =>
        /\ \A k \in 1..Len(get_machine_names(r_in.where)) :
               \E j \in 1..Len(logged) :
                   logged[j].machine_name = get_machine_names(r_in.where)[k]
        /\ \A i \in 1..Len(logged), j \in 1..Len(logged) :
               i < j => MachineRank(logged[i].machine_name)
                            <= MachineRank(logged[j].machine_name)

\* ========================================================= existok properties
LastErrno(w) == e_errno[w][Len(e_errno[w])]
CallEnded(w) == e_pc[w].at \in {"returned", "raised"}

PoolDecided == c_pc \notin {"idle", "start"}

\* C21: with a thread count T >= 1 a pool of T workers is created and at no
\* time more than T tasks are running; with a negative T the pool has one
\* worker per core; with T = 0 no pool is created (Pool(0) raises).
C21_BoundedParallelism ==
    PoolDecided =>
        /\ c_args.thread >= 1 =>
               p.created /\ p.size = c_args.thread
               /\ Cardinality(Running) <= c_args.thread
        /\ c_args.thread < 0 =>
               p.created /\ p.size = NCores /\ Cardinality(Running) <= NCores
        /\ c_args.thread = 0 => ~p.created /\ c_pc = "raised"

\* C21 witness: one worker, one task running while another one waits
C21_Witness ==
    /\ c_pc = "loop" /\ c_args.thread = 1
    /\ Cardinality(Running) = 1
    /\ \E i \in DOMAIN st : st[i] = "pending"

\* C21 as stated: a pool is created for every T that is not negative
C21_PoolForEveryT ==
    PoolDecided =>
        /\ c_args.thread >= 0 =>
               p.created /\ Cardinality(Running) <= c_args.thread
        /\ c_args.thread < 0 => p.created


\* C22: with a segment size K >= 1 the bar has been advanced once for every
\* multiple of K the counter has passed, and when the client has returned from
\* the result loop every one of the n completed tasks was counted once, so the
\* bar was advanced floor(n / K) times, its declared total.
C22_ProgressCounter ==
    (Submitted /\ c_args.seg >= 1) =>
        /\ pbar = count \div c_args.seg
        /\ count <= Cardinality({i \in DOMAIN st : Executed(i)})
        /\ (c_pc \in {"ret_except", "ret_end"}) =>
               /\ count = Len(tasks)
               /\ pbar = Len(tasks) \div c_args.seg


\* the number of task lines the cap lets through
Capped(c, n) == IF c > 0 /\ c < n THEN c ELSE n

\* C23: reading the job file by lines, the client schedules exactly the first
\* min(c, n) lines for a cap c > 0 and all n lines for c <= 0; no other line
\* is ever executed, and when the client has returned each of them was
\* executed once, as the command of its line.
C23_TaskCap ==
    (Submitted /\ ~c_args.full_file) =>
        LET m == Capped(c_args.cap, Len(job_lines))
        IN  /\ tasks = SubSeq(job_lines, 1, m)
            /\ \A k \in 1..Len(ran) : ran[k] \in 1..m
            /\ \A i \in 1..Len(job_lines) : i > m => Runs(i) = 0
            /\ (c_pc \in {"ret_except", "ret_end"}) =>
                   \A i \in 1..m :
                       Runs(i) = 1 /\ Executed(i) /\ outcome[i].task = job_lines[i]

\* C23 witness: a cap smaller than the job file, and the client has returned
C23_Witness ==
    /\ c_pc = "ret_end" /\ ~c_args.full_file
    /\ c_args.cap > 0 /\ c_args.cap < Len(job_lines)
    /\ Len(ran) = c_args.cap


\* C24: with --full_file the client has exactly one unit of work, and that
\* unit is the job-file path as a whole, not a piece of it; so one unit is
\* executed when the client has returned.
C24_FullFileOneUnit ==
    (Submitted /\ c_args.full_file) =>
        /\ Len(tasks) = 1
        /\ tasks[1] \notin Range(JobFilePath)
        /\ (c_pc \in {"ret_except", "ret_end"}) => Len(ran) = 1


\* ----------------------------------------------------------------------- C25
\* C25: when send_jobs has built its invocations, the slot file that holds
\* job i (slot i mod N of the split) is named by one of them, in every mode.
C25_NoJobUndispatched ==
    SentDone =>
        \A i \in 0..(Len(total_jobs) - 1) :
            \E k \in 1..Len(cmd) :
                /\ cmd[k].job_file = SlotFile(Name, i % NS)
                /\ cmd[k].job_file \in DOMAIN pool
                /\ total_jobs[i + 1] \in Range(pool[cmd[k].job_file])


\* ------------------------------------------------------------------ C26, C27
Probed == r_in.entry = "kill_machine" /\ r_in.machine_name # r_env.hostname
OpsOf(op) == {k \in 1..Len(r_trace) : r_trace[k].op = op}

\* C26: for a machine whose ping fails, kill_machine lists no processes and
\* kills none, and returns with the "Can't ping" error as its only message.
C26_Unreachable ==
    (Probed /\ ~r_env.ping_ok) =>
        /\ OpsOf("list") = {} /\ OpsOf("kill") = {}
        /\ pids = <<>> /\ pids_killed = <<>>
        /\ r_pc \in {"kill_machine", "returned"}
        /\ r_pc = "returned" =>
               /\ r_trace = <<Op("ping", 0, FALSE)>>
               /\ msgs = <<Msg(0, "error", "Can't ping", <<>>)>>

\* C26 witness: kill_machine returned for an unreachable machine on which
\* client processes are running
C26_Witness ==
    /\ Probed /\ ~r_env.ping_ok /\ r_pc = "returned"
    /\ get_pids(r_env.ps) # <<>>

AttemptsOn(pid) == {k \in OpsOf("kill") : r_trace[k].pid = pid}
Texts == {msgs[k].text : k \in 1..Len(msgs)}
PidsIn(text) ==
    UNION {Range(msgs[k].pids) : k \in {j \in 1..Len(msgs) : msgs[j].text = text}}

\* C27: on a reachable machine no pid is attempted twice and only matched
\* pids are attempted; when kill_machine has returned every matched pid was
\* attempted once and is in the 'killed' list if its attempt succeeded and in
\* the 'NOT killed' list otherwise, never in both, and 'No clients found' is
\* recorded exactly when no pid was matched.
C27_KillAccounting ==
    (Probed /\ r_env.ping_ok) =>
        /\ \A k \in OpsOf("kill") :
               /\ r_trace[k].pid \in Range(get_pids(r_env.ps))
               /\ Cardinality(AttemptsOn(r_trace[k].pid)) = 1
        /\ r_pc = "returned" =>
               /\ \A pid \in Range(get_pids(r_env.ps)) :
                      /\ Cardinality(AttemptsOn(pid)) = 1
                      /\ \A k \in AttemptsOn(pid) :
                             /\ (pid \in PidsIn("killed")) <=> r_trace[k].ok
                             /\ (pid \in PidsIn("NOT killed")) <=> ~r_trace[k].ok
               /\ PidsIn("killed") \cup PidsIn("NOT killed")
                      = Range(get_pids(r_env.ps))
               /\ ("No clients found" \in Texts) <=> (get_pids(r_env.ps) = <<>>)
               /\ \A i \in 1..Len(msgs) : msgs[i].id = i - 1

\* C27 witness: two matched pids, one killed and one not
C27_Witness ==
    /\ Probed /\ r_env.ping_ok /\ r_pc = "returned"
    /\ Len(get_pids(r_env.ps)) = 2
    /\ Len(pids_killed) = 1


\* ----------------------------------------------------------------------- C28
IsPrefix(s, t) == Len(s) <= Len(t) /\ SubSeq(t, 1, Len(s)) = s

\* the log is what an earlier run left, then this invocation's hostname line,
\* then failure entries only
LogShape ==
    \E before \in LogBefore :
        /\ IsPrefix(before, log_file)
        /\ IF p.created
           THEN /\ Len(log_file) > Len(before)
                /\ log_file[Len(before) + 1] = HostLine
                /\ \A k \in (Len(before) + 2)..Len(log_file) :
                       log_file[k].kind = "fail"
           ELSE log_file = before

\* C28: every step of the client leaves the log's earlier content in place
\* and at most appends to it, and the log always consists of the entries of
\* the earlier invocations, then one hostname line of this invocation (once
\* the pool exists), then this invocation's failure entries.
C28_AppendOnly ==
    /\ [][IsPrefix(log_file, log_file')]_vars
    /\ [](c_pc # "idle" => LogShape)

\* C28 witness: a log left by an earlier run, extended by this run's hostname
\* line and one failure entry
C28_Witness ==
    /\ c_pc = "ret_end"
    /\ Len(log_file) = 4
    /\ SubSeq(log_file, 1, 2) \in LogBefore
    /\ log_file[3] = HostLine /\ log_file[4].kind = "fail"


\* ----------------------------------------------------------------------- C29
Engines == Range(a_targets)

HasT(l) == l.first \in {"v/t", "v/t/n", "v/t/n/x"}
HasN(l) == l.first \in {"v//n", "v/t/n", "v/t/n/x"}

\* an index list of the object is aligned with f: as long as f, and entry i
\* is a list that is empty or as long as f[i]
Aligned(xs) ==
    /\ Len(xs.val) = Len(o_self.f.val)
    /\ \A i \in 1..Len(xs.val) :
           /\ ~xs.val[i].none
           /\ Len(xs.val[i].val) \in {0, Len(o_self.f.val[i].val)}

\* C30: after load_file succeeded, f has one entry per face line in file
\* order, each a list of the face's vertex indices; ft and fn, when not None,
\* are aligned with f; and ft (fn) is None exactly when no face line carries
\* texture (normal) indices.
C30_FaceAlignment ==
    o_pc = "done" =>
        LET faces == FaceLines(o_lines)
        IN  /\ Len(o_self.f.val) = Len(faces)
            /\ \A i \in 1..Len(faces) :
                   /\ ~o_self.f.val[i].none
                   /\ o_self.f.val[i].val = [k \in 1..faces[i].n |-> k]
            /\ ~o_self.ft.none => Aligned(o_self.ft)
            /\ ~o_self.fn.none => Aligned(o_self.fn)
            /\ o_self.ft.none <=> \A i \in 1..Len(faces) : ~HasT(faces[i])
            /\ o_self.fn.none <=> \A i \in 1..Len(faces) : ~HasN(faces[i])

====
